---- MODULE Spec2Model ----
(***************************************************************************)
(* Map Poster API (src/main.py): the HTTP handlers /, /themes, /generate   *)
(* and /preview, run by a pool of server workers.  Every handler is cut    *)
(* into the steps at which it calls a collaborator or the file system, so  *)
(* that concurrent requests interleave at those points.                    *)
(***************************************************************************)
EXTENDS Integers, Sequences, FiniteSets, TLC

(* ---------------------------- bounds ----------------------------------- *)
NumWorkers == 2      \* server workers handling requests concurrently
NumPaths == 2        \* names the temporary directory can hand out
MaxRequests == 2     \* requests received in one behaviour

Workers == 1..NumWorkers
Paths == 1..NumPaths
NoPath == 0          \* output_path not assigned yet

(* ------------------------ program constants ---------------------------- *)
DistanceMin == 1000
DistanceMax == 20000
WidthMin == 6
WidthMax == 24
HeightMin == 8
HeightMax == 32

(* ------------------------------ inputs --------------------------------- *)
KnownThemes == { "noir", "ocean" }
None == [none |-> TRUE]
\* Optional[str]: << >> is None, << s >> is the text s.
\* Text that is transformed character by character is a sequence of
\* one-character strings.
Query(city, theme, distance, width, height, display_city, display_country) ==
  [endpoint |-> "generate", city |-> city, country |-> "Taiwan",
   theme |-> theme, distance |-> distance, width |-> width,
   height |-> height, display_city |-> display_city,
   display_country |-> display_country]
\* Requests the boundary accepts, at the two corners of the valid box: one
\* with a city in mixed case and no display labels, one with a city already
\* in lower case, display labels and another theme, one with a theme the
\* store does not have.
ValidGenerateRequests ==
  { Query(<< "T", "p" >>, "noir", 1000, 6, 8, << >>, << >>),
    Query(<< "t", "p" >>, "ocean", 20000, 24, 32, << "Taibei" >>, << "TW" >>),
    Query(<< "T", "p" >>, "doesnotexist", 1000, 6, 8, << >>, << >>) }
\* Requests with one parameter just outside one of its bounds.
InvalidGenerateRequests ==
  { Query(<< "T", "p" >>, "noir", d[1], d[2], d[3], << >>, << >>) :
      d \in { << 999, 6, 8 >>, << 20001, 24, 32 >>,
              << 1000, 5, 8 >>, << 20000, 25, 32 >>,
              << 1000, 6, 7 >>, << 20000, 24, 33 >> } }
GenerateRequests == ValidGenerateRequests \cup InvalidGenerateRequests
PreviewRequests ==
  { [endpoint |-> "preview", city |-> << "T", "p" >>, country |-> "Taiwan",
     theme |-> t] : t \in { "noir", "doesnotexist" } }
Requests ==
  { [endpoint |-> "root"], [endpoint |-> "themes"] }
    \cup GenerateRequests \cup PreviewRequests
Coordinates == { [latitude |-> 25, longitude |-> 121] }

\* The theme store read by load_theme and get_available_themes.
InitialThemeStore ==
  [n \in KnownThemes |-> [name |-> n, description |-> <<"minimal ", n>>]]

VARIABLES
  pc,           \* per worker: where its handler stands
  req,          \* per worker: the request it is handling
  theme_data,   \* per worker: local of the handler
  coords,       \* per worker: local of the handler
  output_path,  \* per worker: local of generate_poster
  image_data,   \* per worker: local of generate_poster
  call,         \* per worker: the arguments of its create_poster call
  log,          \* per worker: the collaborator and file steps it started
  resp,         \* per worker: the response it returned
  exc,          \* per worker: the exception raised in its handler, if any
  fs,           \* the temporary directory: path -> file content
  themeStore,   \* the theme store
  nreq          \* requests received so far

vars == << pc, req, theme_data, coords, output_path, image_data, call, log,
           resp, exc, fs, themeStore, nreq >>

NoRequest == [endpoint |-> "none"]
NoCall == [called |-> FALSE]
NoResponse == [status |-> 0]

Init ==
  /\ pc = [w \in Workers |-> "idle"]
  /\ req = [w \in Workers |-> NoRequest]
  /\ theme_data = [w \in Workers |-> None]
  /\ coords = [w \in Workers |-> None]
  /\ output_path = [w \in Workers |-> NoPath]
  /\ image_data = [w \in Workers |-> << >>]
  /\ call = [w \in Workers |-> NoCall]
  /\ log = [w \in Workers |-> << >>]
  /\ resp = [w \in Workers |-> NoResponse]
  /\ exc = [w \in Workers |-> None]
  /\ fs = [p \in {} |-> << >>]
  /\ themeStore = InitialThemeStore
  /\ nreq = 0

(* ----------------------------- responses ------------------------------- *)
\* What the framework sends for a raised HTTPException.
ErrorResponse(status, detail) == [status |-> status, detail |-> detail]
JSONResponse(content) == [status |-> 200, json |-> content]
StreamingResponse(content, media_type, headers) ==
  [status |-> 200, body |-> content, media_type |-> media_type,
   headers |-> headers]

(* ----------------------------- exceptions ------------------------------ *)
HTTPException(status, detail) ==
  [kind |-> "HTTPException", status |-> status, detail |-> detail]
Raised(kind, msg) == [kind |-> kind, msg |-> msg]
\* str(e)
Str(e) ==
  IF e.kind = "HTTPException"
    THEN << ToString(e.status), ": " >> \o e.detail
    ELSE e.msg

(* ------------------------------ helpers -------------------------------- *)
UpperToLower == [A |-> "a", N |-> "n", P |-> "p", T |-> "t", W |-> "w"]
\* Mutant of lower: the city is used as typed.
lower_AsTyped(s) == s
\* str.lower()
lower(s) ==
  [i \in DOMAIN s |->
     IF s[i] \in DOMAIN UpperToLower THEN UpperToLower[s[i]] ELSE s[i]]

\* Query(..., ge=lo, le=hi)
ge_le(v, lo, hi) == v >= lo /\ v <= hi
distance_ok(d) == ge_le(d, DistanceMin, DistanceMax)
\* Mutant of width_ok: the upper bound is not declared.
width_ok_NoUpperBound(x) == x >= WidthMin
width_ok(x) == ge_le(x, WidthMin, WidthMax)
height_ok(x) == ge_le(x, HeightMin, HeightMax)
\* The parameters of /generate the boundary rejects, in declaration order.
QueryErrors(r) ==
  IF r.endpoint # "generate" THEN << >>
  ELSE (IF distance_ok(r.distance) THEN << >> ELSE << "distance" >>)
       \o (IF width_ok(r.width) THEN << >> ELSE << "width" >>)
       \o (IF height_ok(r.height) THEN << >> ELSE << "height" >>)

\* load_theme(name): the descriptor stored under the name, None without one.
load_theme(name) ==
  IF name \in DOMAIN themeStore THEN themeStore[name] ELSE None
\* get_available_themes()
get_available_themes == DOMAIN themeStore

\* What get_coordinates(city, country) can do.
Ok(v) == [ok |-> TRUE, value |-> v]
Raise(e) == [ok |-> FALSE, exc |-> e]
get_coordinates(city, country) ==
  { Ok(c) : c \in Coordinates }
    \cup { Raise(Raised("ValueError",
                        << "Could not find coordinates for " >> \o city
                          \o << ", ", country >>)),
           Raise(Raised("RuntimeError", << "geocoder unavailable" >>)) }

\* The image create_poster draws for its arguments (the output file aside).
PNG(args) ==
  << [city |-> args.city, country |-> args.country, point |-> args.point,
      dist |-> args.dist, width |-> args.width, height |-> args.height,
      display_city |-> args.display_city,
      display_country |-> args.display_country] >>
\* What create_poster(...) can do.
create_poster ==
  { Ok(TRUE),
    Raise(Raised("ValueError", << "no graph nodes in the requested area" >>)),
    Raise(Raised("RuntimeError", << "rendering failed" >>)) }

\* Mutant of FreeNames: a name is picked without looking at the directory.
FreeNames_AnyName(files) == Paths
\* Names tempfile may pick: it never opens a name that exists.
FreeNames(files) == Paths \ DOMAIN files
CreateFile(files, p) == [q \in DOMAIN files \cup {p} |-> IF q = p THEN << >> ELSE files[q]]
WriteFile(files, p, data) == [q \in DOMAIN files \cup {p} |-> IF q = p THEN data ELSE files[q]]
Unlink(files, p) == [q \in DOMAIN files \ {p} |-> files[q]]

\* The arguments generate_poster passes to create_poster.
CreatePosterArgs(r, point, path) ==
  [city |-> r.city, country |-> r.country, point |-> point,
   dist |-> r.distance, output_file |-> path, output_format |-> "png",
   width |-> r.width, height |-> r.height,
   display_city |-> r.display_city, display_country |-> r.display_country]

\* Mutant of GenerateExcept: the ValueError clause is missing.
GenerateExcept_NoValueErrorClause(e) ==
  ErrorResponse(500, << "Error generating poster: " >> \o Str(e))
\* The except clauses of generate_poster.
GenerateExcept(e) ==
  IF e.kind = "ValueError"
    THEN ErrorResponse(400, Str(e))
    ELSE ErrorResponse(500, << "Error generating poster: " >> \o Str(e))
\* The except clause of preview_poster; what it does not catch reaches the
\* server, which answers 500.
PreviewExcept(e) ==
  IF e.kind = "ValueError"
    THEN ErrorResponse(400, Str(e))
    ELSE ErrorResponse(500, << "Internal Server Error" >>)

ContentDisposition(city, theme) ==
  << "attachment; filename=" >> \o lower(city) \o << "_", theme, "_poster.png" >>

\* The handler returns r.
Returns(w, r) ==
  /\ pc' = [pc EXCEPT ![w] = "done"]
  /\ resp' = [resp EXCEPT ![w] = r]
  /\ UNCHANGED exc
\* The handler goes on to its next step.
Goes(w, label) ==
  /\ pc' = [pc EXCEPT ![w] = label]
  /\ UNCHANGED << resp, exc >>
\* e is raised inside the try block of generate_poster.
GenRaises(w, e) ==
  /\ pc' = [pc EXCEPT ![w] = "done"]
  /\ exc' = [exc EXCEPT ![w] = e]
  /\ resp' = [resp EXCEPT ![w] = GenerateExcept(e)]
\* e is raised inside the try block of preview_poster.
PrevRaises(w, e) ==
  /\ pc' = [pc EXCEPT ![w] = "done"]
  /\ exc' = [exc EXCEPT ![w] = e]
  /\ resp' = [resp EXCEPT ![w] = PreviewExcept(e)]
Logs(w, step) == log' = [log EXCEPT ![w] = Append(@, step)]

(* ------------------------------ actions -------------------------------- *)
\* The label at which the handler of a route starts.
Entry(r) ==
  CASE r.endpoint = "root" -> "root"
    [] r.endpoint = "themes" -> "themes"
    [] r.endpoint = "generate" -> "gen_theme"
    [] r.endpoint = "preview" -> "prev_coords"

\* The server hands a request to a worker that is not handling one; the
\* boundary validates the query parameters and either rejects the request
\* or calls the handler of its route.
Receive(w) ==
  /\ pc[w] \in { "idle", "done" }
  /\ nreq < MaxRequests
  /\ nreq' = nreq + 1
  /\ \E r \in Requests :
       /\ req' = [req EXCEPT ![w] = r]
       /\ pc' = [pc EXCEPT ![w] =
                   IF QueryErrors(r) # << >> THEN "done" ELSE Entry(r)]
       /\ resp' = [resp EXCEPT ![w] =
                     IF QueryErrors(r) # << >>
                       THEN ErrorResponse(422, QueryErrors(r))
                       ELSE NoResponse]
  /\ theme_data' = [theme_data EXCEPT ![w] = None]
  /\ coords' = [coords EXCEPT ![w] = None]
  /\ output_path' = [output_path EXCEPT ![w] = NoPath]
  /\ image_data' = [image_data EXCEPT ![w] = << >>]
  /\ call' = [call EXCEPT ![w] = NoCall]
  /\ log' = [log EXCEPT ![w] = << >>]
  /\ exc' = [exc EXCEPT ![w] = None]
  /\ UNCHANGED << fs, themeStore >>

\* GET /
root(w) ==
  /\ pc[w] = "root"
  /\ Returns(w, JSONResponse([status |-> "ok",
                              message |-> "Map Poster API is running"]))
  /\ UNCHANGED << req, theme_data, coords, output_path, image_data, call, log,
                  fs, themeStore, nreq >>

\* Mutant of list_themes: the default theme is left out of the listing.
list_themes_WithoutDefault(w) ==
  /\ pc[w] = "themes"
  /\ Logs(w, "get_available_themes")
  /\ Returns(w, JSONResponse([themes |-> get_available_themes \ { "noir" }]))
  /\ UNCHANGED << req, theme_data, coords, output_path, image_data, call,
                  fs, themeStore, nreq >>
\* GET /themes
list_themes(w) ==
  /\ pc[w] = "themes"
  /\ Logs(w, "get_available_themes")
  /\ Returns(w, JSONResponse([themes |-> get_available_themes]))
  /\ UNCHANGED << req, theme_data, coords, output_path, image_data, call,
                  fs, themeStore, nreq >>

\* Mutant of GenLoadTheme: the result of the lookup is not tested.
GenLoadTheme_Unchecked(w) ==
  /\ pc[w] = "gen_theme"
  /\ Logs(w, "load_theme")
  /\ theme_data' = [theme_data EXCEPT ![w] = load_theme(req[w].theme)]
  /\ Goes(w, "gen_coords")
  /\ UNCHANGED << req, coords, output_path, image_data, call, fs, themeStore,
                  nreq >>
\* GET /generate, lines 74-76: theme lookup.
GenLoadTheme(w) ==
  /\ pc[w] = "gen_theme"
  /\ Logs(w, "load_theme")
  /\ theme_data' = [theme_data EXCEPT ![w] = load_theme(req[w].theme)]
  /\ IF load_theme(req[w].theme) = None
       THEN GenRaises(w,
              HTTPException(400, << "Theme '", req[w].theme, "' not found" >>))
       ELSE Goes(w, "gen_coords")
  /\ UNCHANGED << req, coords, output_path, image_data, call, fs, themeStore,
                  nreq >>

\* GET /generate, line 80: geocoding.
GenGetCoordinates(w) ==
  /\ pc[w] = "gen_coords"
  /\ Logs(w, "get_coordinates")
  /\ \E out \in get_coordinates(req[w].city, req[w].country) :
       IF out.ok
         THEN /\ coords' = [coords EXCEPT ![w] = out.value]
              /\ Goes(w, "gen_tmp")
         ELSE /\ UNCHANGED coords
              /\ GenRaises(w, out.exc)
  /\ UNCHANGED << req, theme_data, output_path, image_data, call, fs,
                  themeStore, nreq >>

\* GET /generate, lines 83-84: the temporary file is created, closed and kept.
GenTempFile(w) ==
  /\ pc[w] = "gen_tmp"
  /\ Logs(w, "NamedTemporaryFile")
  /\ \/ \E p \in FreeNames(fs) :
          /\ fs' = CreateFile(fs, p)
          /\ output_path' = [output_path EXCEPT ![w] = p]
          /\ Goes(w, "gen_render")
     \/ /\ UNCHANGED << fs, output_path >>
        /\ GenRaises(w,
             Raised("OSError", << "No usable temporary file name found" >>))
  /\ UNCHANGED << req, theme_data, coords, image_data, call, themeStore, nreq >>

\* GET /generate, lines 87-98: the renderer writes the image to output_path.
GenCreatePoster(w) ==
  /\ pc[w] = "gen_render"
  /\ Logs(w, "create_poster")
  /\ call' = [call EXCEPT ![w] =
                CreatePosterArgs(req[w], coords[w], output_path[w])]
  /\ \E out \in create_poster :
       IF out.ok
         THEN /\ fs' = WriteFile(fs, output_path[w],
                         PNG(CreatePosterArgs(req[w], coords[w], output_path[w])))
              /\ Goes(w, "gen_read")
         ELSE /\ UNCHANGED fs
              /\ GenRaises(w, out.exc)
  /\ UNCHANGED << req, theme_data, coords, output_path, image_data, themeStore,
                  nreq >>

\* GET /generate, lines 101-102: the file is read into memory.
GenRead(w) ==
  /\ pc[w] = "gen_read"
  /\ Logs(w, "read")
  /\ \/ /\ output_path[w] \in DOMAIN fs
        /\ image_data' = [image_data EXCEPT ![w] = fs[output_path[w]]]
        /\ Goes(w, "gen_unlink")
     \/ /\ UNCHANGED image_data
        /\ GenRaises(w,
             Raised("OSError", << "cannot read the poster file" >>))
  /\ UNCHANGED << req, theme_data, coords, output_path, call, fs, themeStore,
                  nreq >>

\* GET /generate, line 105: the file is deleted.
GenUnlink(w) ==
  /\ pc[w] = "gen_unlink"
  /\ Logs(w, "unlink")
  /\ IF output_path[w] \in DOMAIN fs
       THEN /\ fs' = Unlink(fs, output_path[w])
            /\ Goes(w, "gen_return")
       ELSE /\ UNCHANGED fs
            /\ GenRaises(w,
                 Raised("OSError", << "No such file or directory" >>))
  /\ UNCHANGED << req, theme_data, coords, output_path, image_data, call,
                  themeStore, nreq >>

\* GET /generate, lines 108-114: the image is returned.
GenReturn(w) ==
  /\ pc[w] = "gen_return"
  /\ Logs(w, "return")
  /\ Returns(w, StreamingResponse(image_data[w], "image/png",
       [Content_Disposition |-> ContentDisposition(req[w].city, req[w].theme)]))
  /\ UNCHANGED << req, theme_data, coords, output_path, image_data, call, fs,
                  themeStore, nreq >>

\* GET /preview, line 134: geocoding.
PrevGetCoordinates(w) ==
  /\ pc[w] = "prev_coords"
  /\ Logs(w, "get_coordinates")
  /\ \E out \in get_coordinates(req[w].city, req[w].country) :
       IF out.ok
         THEN /\ coords' = [coords EXCEPT ![w] = out.value]
              /\ Goes(w, "prev_theme")
         ELSE /\ UNCHANGED coords
              /\ PrevRaises(w, out.exc)
  /\ UNCHANGED << req, theme_data, output_path, image_data, call, fs,
                  themeStore, nreq >>

\* GET /preview, lines 135-148: theme lookup and the preview document.
PrevLoadTheme(w) ==
  /\ pc[w] = "prev_theme"
  /\ Logs(w, "load_theme")
  /\ theme_data' = [theme_data EXCEPT ![w] = load_theme(req[w].theme)]
  /\ IF load_theme(req[w].theme) = None
       THEN PrevRaises(w,
              Raised("AttributeError",
                     << "'NoneType' object has no attribute 'get'" >>))
       ELSE Returns(w, JSONResponse(
              [city |-> req[w].city, country |-> req[w].country,
               coordinates |-> [latitude |-> coords[w].latitude,
                                longitude |-> coords[w].longitude],
               theme |-> [name |-> req[w].theme,
                          description |-> load_theme(req[w].theme).description]]))
  /\ UNCHANGED << req, coords, output_path, image_data, call, fs, themeStore,
                  nreq >>

Next ==
  \E w \in Workers :
    \/ Receive(w)
    \/ root(w)
    \/ list_themes(w)
    \/ GenLoadTheme(w)
    \/ GenGetCoordinates(w)
    \/ GenTempFile(w)
    \/ GenCreatePoster(w)
    \/ GenRead(w)
    \/ GenUnlink(w)
    \/ GenReturn(w)
    \/ PrevGetCoordinates(w)
    \/ PrevLoadTheme(w)

Spec == Init /\ [][Next]_vars

(* ------------------------------ properties ----------------------------- *)
Done(w) == pc[w] = "done"
IsGenerate(w) == req[w].endpoint = "generate"
IsPreview(w) == req[w].endpoint = "preview"
Last(q) == q[Len(q)]
Started(w, step) == \E i \in DOMAIN log[w] : log[w][i] = step
\* The worker's handler is between creating its file and deleting it.
Holding(w) == pc[w] \in { "gen_render", "gen_read", "gen_unlink" }
Quiescent == \A w \in Workers : pc[w] \in { "idle", "done" }
FileAt(files, p) == IF p \in DOMAIN files THEN << files[p] >> ELSE << >>
OutOfRange(r) ==
  \/ r.distance < 1000 \/ r.distance > 20000
  \/ r.width < 6 \/ r.width > 24
  \/ r.height < 8 \/ r.height > 32
GenerateOrder ==
  << "load_theme", "get_coordinates", "NamedTemporaryFile", "create_poster",
     "read", "unlink", "return" >>
IsPrefix(q, full) ==
  /\ Len(q) <= Len(full)
  /\ \A i \in DOMAIN q : q[i] = full[i]
UpperCase == { "A", "N", "P", "T", "W" }
\* l is the lower-case form of the character c.
LowerCaseOf(c, l) ==
  /\ l \notin UpperCase
  /\ \/ c = l
     \/ << c, l >> \in { << "A", "a" >>, << "N", "n" >>, << "P", "p" >>,
                         << "T", "t" >>, << "W", "w" >> }

\* C1: once every request has completed, no temporary file created by a
\* handler exists any more, whatever the outcome of each request's steps.
C1_NoArtifactSurvives == Quiescent => DOMAIN fs = {}

\* C2: a /generate or /preview request whose theme lookup yields no
\* descriptor is answered with status 400 and a message naming the theme.
C2_UnknownThemeIsClientError ==
  \A w \in Workers :
    ( /\ Done(w)
      /\ IsGenerate(w) \/ IsPreview(w)
      /\ log[w] # << >>
      /\ Last(log[w]) = "load_theme"
      /\ theme_data[w] = None )
    => /\ resp[w].status = 400
       /\ \E i \in DOMAIN resp[w].detail : resp[w].detail[i] = req[w].theme

\* C3: when the geocoder raises its ValueError, /generate and /preview answer
\* with status 400 carrying the geocoder's message, and /generate has neither
\* created a file nor called the renderer.
C3_UnresolvablePlaceIsClientError ==
  \A w \in Workers :
    ( /\ Done(w)
      /\ IsGenerate(w) \/ IsPreview(w)
      /\ log[w] # << >>
      /\ Last(log[w]) = "get_coordinates"
      /\ exc[w] # None
      /\ exc[w].kind = "ValueError" )
    => /\ resp[w].status = 400
       /\ resp[w].detail = exc[w].msg
       /\ call[w] = NoCall
       /\ output_path[w] = NoPath
       /\ ~ Started(w, "NamedTemporaryFile")
       /\ ~ Started(w, "create_poster")
C3_Witness ==
  \E w1, w2 \in Workers :
    /\ Done(w1) /\ IsGenerate(w1) /\ Done(w2) /\ IsPreview(w2)
    /\ \A w \in { w1, w2 } :
         /\ log[w] # << >>
         /\ Last(log[w]) = "get_coordinates"
         /\ exc[w] # None
         /\ exc[w].kind = "ValueError"
         /\ req[w].theme \in KnownThemes

\* C4: whatever exception the renderer raises in /generate, the answer is
\* status 500 with the exception's message in its detail.
C4_RenderFailureIsServerError ==
  \A w \in Workers :
    ( /\ Done(w)
      /\ IsGenerate(w)
      /\ log[w] # << >>
      /\ Last(log[w]) = "create_poster"
      /\ exc[w] # None )
    => /\ resp[w].status = 500
       /\ resp[w].detail = << "Error generating poster: " >> \o exc[w].msg

\* C5: a /generate request with distance, width or height out of range is
\* rejected with no theme lookup, geocoding, file creation or renderer call
\* made for it, and two such identical requests get identical answers.
C5_OutOfRangeRejectedAtBoundary ==
  /\ \A w \in Workers :
       (IsGenerate(w) /\ OutOfRange(req[w]))
       => /\ Done(w)
          /\ resp[w].status = 422
          /\ log[w] = << >>
          /\ theme_data[w] = None
          /\ coords[w] = None
          /\ output_path[w] = NoPath
          /\ call[w] = NoCall
  /\ \A w1, w2 \in Workers :
       ( /\ Done(w1) /\ Done(w2)
         /\ IsGenerate(w1) /\ OutOfRange(req[w1])
         /\ req[w1] = req[w2] )
       => resp[w1] = resp[w2]
C5_Witness ==
  \E w1, w2 \in Workers :
    /\ w1 # w2
    /\ Done(w1) /\ Done(w2)
    /\ IsGenerate(w1) /\ OutOfRange(req[w1])
    /\ req[w1] = req[w2]
    /\ resp[w1].status = 422

\* C6: the renderer is invoked with this request's coordinates, distance,
\* width, height, display labels and the theme looked up for this request.
C6_RendererGetsRequestAndTheme ==
  \A w \in Workers :
    (IsGenerate(w) /\ call[w] # NoCall)
    => /\ call[w].point = coords[w]
       /\ call[w].dist = req[w].distance
       /\ call[w].width = req[w].width
       /\ call[w].height = req[w].height
       /\ call[w].display_city = req[w].display_city
       /\ call[w].display_country = req[w].display_country
       /\ "theme" \in DOMAIN call[w]
       /\ call[w].theme = theme_data[w]

C8_StateIsolation ==
  /\ \A w1, w2 \in Workers :
       (w1 # w2 /\ Holding(w1) /\ Holding(w2))
       => output_path[w1] # output_path[w2]
  /\ \A w \in Workers :
       Holding(w) => output_path[w] \in DOMAIN fs
  /\ \A w \in Workers :
       (Done(w) /\ IsGenerate(w) /\ resp[w].status = 200)
       => resp[w].body = PNG(CreatePosterArgs(req[w], coords[w], output_path[w]))
\* A step that creates, writes or deletes a file is taken by the request
\* that holds the file, and no other request in flight holds it.
C8_StepIsolation ==
  \A p \in Paths :
    FileAt(fs, p) # FileAt(fs', p)
    => \E w \in Workers :
         /\ pc'[w] # pc[w]
         /\ output_path'[w] = p
         /\ \A v \in Workers \ { w } : ~ (Holding(v) /\ output_path[v] = p)
\* C8: concurrent /generate requests hold distinct temporary paths, a file is
\* created, written or deleted only by the request holding it, and a success
\* body is the image rendered for the arguments of the same request.
C8_Isolation == [] C8_StateIsolation /\ [][C8_StepIsolation]_vars
C8_Witness ==
  \E w1, w2 \in Workers :
    /\ Holding(w1) /\ Holding(w2)
    /\ pc[w1] = "gen_read" /\ pc[w2] = "gen_read"
    /\ fs[output_path[w1]] # fs[output_path[w2]]

\* A completed /themes request carries the names of the themes in the store.
C9_ThemesAnswer ==
  \A w \in Workers :
    (Done(w) /\ req[w].endpoint = "themes")
    => /\ resp[w].status = 200
       /\ resp[w].json.themes = { themeStore[n].name : n \in DOMAIN themeStore }
\* C9: no request changes the theme store, and /themes answers with exactly
\* the names of the themes in the store.
C9_ThemeStoreStable ==
  [] C9_ThemesAnswer /\ [][themeStore' = themeStore]_vars
C9_Witness ==
  \E w1, w2 \in Workers :
    /\ Done(w1) /\ req[w1].endpoint = "themes"
    /\ Done(w2) /\ IsGenerate(w2) /\ resp[w2].status = 200

\* C10: the steps of one /generate request are started in the order theme
\* lookup, geocoding, file creation, renderer, read, delete, return, each at
\* most once and only after the earlier ones succeeded.
C10_StepOrder ==
  \A w \in Workers :
    IsGenerate(w)
    => /\ IsPrefix(log[w], GenerateOrder)
       /\ (theme_data[w] = None /\ log[w] # << >>) => log[w] = << "load_theme" >>
       /\ (Done(w) /\ exc[w] # None /\ Started(w, "get_coordinates")
             /\ coords[w] = None)
          => log[w] = << "load_theme", "get_coordinates" >>
       /\ (Done(w) /\ resp[w].status = 200)
          => /\ log[w] = GenerateOrder
             /\ image_data[w] # << >>
C10_Witness ==
  \E w \in Workers :
    /\ Done(w) /\ IsGenerate(w)
    /\ resp[w].status = 200
    /\ log[w] = GenerateOrder

====
